---- MODULE Spec2Model ----
(***************************************************************************)
(* Sliding-window rate limiter: the in-memory store, the Redis sorted-set  *)
(* store, the routing between them and the limiter's lifecycle.            *)
(* Times are milliseconds, as returned by Date.now().                      *)
(***************************************************************************)
EXTENDS Integers, Sequences, FiniteSets, TLC

\* ------------------------------------------------------------------ bounds
MaxTime == 1501          \* the clock stops advancing after this instant
MaxRequestsMax == 2      \* largest maxRequests a call site passes
MaxWeight == 2           \* largest weight a call passes
MaxEvents == 3           \* most requests admitted on a key when callers
                         \*   pass a weight that is not positive

\* ------------------------------------------------------- program constants
MsPerSecond == 1000      \* the divisor of Math.ceil(... / 1000)

\* the keys callers pass
Keys == {"admin:abc"}

\* the callers that may have a checkRateLimit call in flight at the same time
Callers == {"c1", "c2"}

\* the client objects createClient may return during one run of the process
Clients == {"client1", "client2"}

\* the windowMs values call sites pass: one a whole number of seconds, one not
Windows == {1000, 1500}

\* instants at which Date.now() is observed: every half second and one
\* millisecond later, so that ages of exactly windowMs, windowMs - 1 and
\* windowMs + 1 all occur, and ages on both sides of a whole second
Instants == {t \in 0..MaxTime : t % 500 \in {0, 1}}

VARIABLES
    now,            \* Date.now()
    redisUrl,       \* process.env.REDIS_URL is set
    redisClient,    \* module variable redisClient is non-null
    initialized,    \* module variable initialized
    connecting,     \* initializeRateLimiter is suspended at `await connect()`
    inMemoryStore,  \* Map<string, Array<{timestamp, weight}>>
    redisStore,     \* the server's sorted sets: key -> set of [score, member]
    redisExpireAt,  \* the server's key expiry: key -> instant, or -1 (no expiry)
    maxRequests,    \* the limit the call site passes
    windowMs,       \* the window the call site passes
    calls,          \* caller -> its checkRateLimit call in flight: the backend
                    \*   operation it awaits, the count it read, its result
    last,           \* the last call and what it returned
    clients,        \* client object -> "none" (not created), "connecting",
                    \*   "open", "quitting", "failed" or "closed"
    held,           \* the client object redisClient refers to, or "none"
    http,           \* the requests GET /api/admin/users has answered: how
                    \*   many, the status of the last, and whether any was 429
    denial,         \* history: key -> the earliest resetTime a unit-weight
                    \*   check was denied with since the key's last admission
                    \*   (or -1), and whether that admission came at or after
                    \*   such a resetTime
    admittedAt,     \* history: key -> instants at which checkRateLimitMemory
                    \*   answered allowed=true since the key was last cleared
    run             \* history: key -> the unit-weight calls made one after the
                    \*   other since the key had no state in the active store

\* the program's state and the call sites' parameters
prog == <<now, redisUrl, redisClient, initialized, connecting, inMemoryStore,
          redisStore, redisExpireAt, maxRequests, windowMs>>

\* the history variables
hist == <<admittedAt, run>>

\* what the operations of the limiter on one connection leave alone: the
\* client objects, the HTTP front and the history of denials
rest == <<clients, held, http, denial>>

vars == <<prog, calls, last, rest, hist>>

\* ----------------------------------------------------------------- helpers
\* variants of Ceil: Math.floor in its place, and the rounding `floor + 1`,
\* which is one too many on a whole number of seconds
CeilAsFloor(a, b) == a \div b

CeilAsFloorPlusOne(a, b) == (a \div b) + 1

\* Math.ceil(a / b) for an integer a and b > 0
Ceil(a, b) == -((-a) \div b)

\* variant of SumWeight: the number of requests, as ZCARD counts members
SumWeightAsCount(requests) == Len(requests)

RECURSIVE SumWeight(_)
\* requests.reduce((sum, req) => sum + req.weight, 0)
SumWeight(requests) ==
    IF requests = <<>> THEN 0
    ELSE Head(requests).weight + SumWeight(Tail(requests))

\* variant of FilterRequests: a request exactly windowMs old is kept
FilterRequestsClosed(requests, windowStart) ==
    SelectSeq(requests, LAMBDA req : req.timestamp >= windowStart)

\* requests.filter((req) => req.timestamp > windowStart)
FilterRequests(requests, windowStart) ==
    SelectSeq(requests, LAMBDA req : req.timestamp > windowStart)

\* inMemoryStore.get(key) || []
MapGet(key) ==
    IF key \in DOMAIN inMemoryStore THEN inMemoryStore[key] ELSE <<>>

\* inMemoryStore.set(key, requests)
MapSet(key, requests) ==
    [k \in (DOMAIN inMemoryStore) \cup {key} |->
        IF k = key THEN requests ELSE inMemoryStore[k]]

\* inMemoryStore.delete(key)
MapDelete(key) ==
    [k \in (DOMAIN inMemoryStore) \ {key} |-> inMemoryStore[k]]

\* ---------------------------------------------------------- call results
NoCall ==
    [op |-> "none", key |-> "", weight |-> 0, via |-> "none",
     outcome |-> "none", allowed |-> FALSE, remaining |-> 0, resetTime |-> 0,
     hasRetryAfter |-> FALSE, retryAfter |-> 0, currentUsage |-> 0]

\* a Decision returned by checkRateLimit
Decision(key, weight, via, outcome, allowed, remaining, resetTime, hasRetry, retryAfter) ==
    [op |-> "check", key |-> key, weight |-> weight, via |-> via,
     outcome |-> outcome, allowed |-> allowed, remaining |-> remaining,
     resetTime |-> resetTime, hasRetryAfter |-> hasRetry,
     retryAfter |-> retryAfter, currentUsage |-> 0]

\* a call that ended by throwing (a rejected promise)
Thrown(op, key, weight, via) ==
    [NoCall EXCEPT !.op = op, !.key = key, !.weight = weight, !.via = via,
                   !.outcome = "throw"]

\* a call other than a check that returned
Returned(op, key, via, usage) ==
    [NoCall EXCEPT !.op = op, !.key = key, !.via = via, !.outcome = "ok",
                   !.currentUsage = usage]

\* no request answered yet
NoRequests == [sent |-> 0, status |-> 0, limited |-> FALSE]

\* no call in flight
IdleCall == [at |-> "idle", key |-> "", count |-> 0, result |-> NoCall]

\* ---------------------------------------------------------------- history
NoRun == [n |-> 0, first |-> -1, via |-> "none"]

\* the run of calls after a check: a unit-weight call that got a Decision from
\* the store starts a run when the key had no state, continues the run of the
\* same store up to the call after the maxRequests-th, and anything else ends it
RunAfter(key, via, hadNoState, weight, result) ==
    IF result.outcome = "decision" /\ weight = 1
    THEN IF hadNoState
         THEN [n |-> 1, first |-> now, via |-> via]
         ELSE IF run[key].n \in 1..maxRequests /\ run[key].via = via
         THEN [run[key] EXCEPT !.n = @ + 1]
         ELSE NoRun
    ELSE NoRun

\* the history the clock keeps at instant t: a run lasts while its calls are
\* inside one window
RunAt(t) ==
    [k \in Keys |-> IF run[k].n > 0 /\ t - run[k].first < windowMs
                    THEN run[k] ELSE NoRun]

\* no unit-weight check denied since the key's last admission
NoDenial == [resetTime |-> -1, retried |-> FALSE]

\* the denials of key `key` after a check that returned `result` at `now`: a
\* denied unit-weight check adds its resetTime, an allowed check ends them
DenialAfter(key, result) ==
    IF result.outcome \in {"decision", "failopen"} /\ result.allowed
    THEN [resetTime |-> -1,
          retried   |-> denial[key].resetTime # -1
                            /\ now >= denial[key].resetTime
                            /\ result.weight = 1]
    ELSE IF result.outcome = "decision" /\ result.weight = 1
    THEN [resetTime |-> IF denial[key].resetTime = -1
                           \/ result.resetTime < denial[key].resetTime
                        THEN result.resetTime
                        ELSE denial[key].resetTime,
          retried   |-> FALSE]
    ELSE denial[key]

\* a change of the active store ends every run
NoRuns == [k \in Keys |-> NoRun]

\* ------------------------------------------------------------------- Init
\* the state after the module is loaded, for call sites that pass a
\* maxRequests of `limits` and a windowMs of `windows`
InitWith(limits, windows) ==
    /\ now = 0
    /\ redisUrl \in BOOLEAN
    /\ redisClient = FALSE
    /\ initialized = FALSE
    /\ connecting = FALSE
    /\ inMemoryStore = << >>
    /\ redisStore = [k \in Keys |-> {}]
    /\ redisExpireAt = [k \in Keys |-> -1]
    /\ maxRequests \in limits
    /\ windowMs \in windows
    /\ calls = [c \in Callers |-> IdleCall]
    /\ last = NoCall
    /\ clients = [c \in Clients |-> "none"]
    /\ held = "none"
    /\ http = NoRequests
    /\ denial = [k \in Keys |-> NoDenial]
    /\ admittedAt = [k \in Keys |-> <<>>]
    /\ run = [k \in Keys |-> NoRun]

Init == InitWith(1..MaxRequestsMax, Windows)

\* -------------------------------------------------- the sliding window
\* variant of WindowStart: windowMs taken for seconds
WindowStartInSeconds(window) == now - window * MsPerSecond

\* const windowStart = now - windowMs
WindowStart(window) == now - window

\* variant of Exceeds: the request's own weight left out of the test
ExceedsWithoutRequest(currentWeight, weight, maxReq) == currentWeight > maxReq

\* the test `currentWeight + weight > maxRequests` of both stores
Exceeds(currentWeight, weight, maxReq) == currentWeight + weight > maxReq

\* variant of DeniedRequests: the denied request is stored too
DeniedRequestsRecorded(requests, weight) ==
    Append(requests, [timestamp |-> now, weight |-> weight])

\* what the denied branch stores: inMemoryStore.set(key, requests), the
\* filtered array without the request
DeniedRequests(requests, weight) == requests

\* variant of AdmittedRequests: the write of the admitted request is lost
AdmittedRequestsLost(requests, weight) == requests

\* what the allowed branch stores: requests.push({ timestamp: now, weight })
AdmittedRequests(requests, weight) ==
    Append(requests, [timestamp |-> now, weight |-> weight])

\* --------------------------------------------------- checkRateLimitMemory
\* the body of checkRateLimitMemory as a function of the stored array
MemoryCheck(key, stored, maxReq, window, weight) ==
    LET windowStart == WindowStart(window)
        requests    == FilterRequests(stored, windowStart)
        totalWeight == SumWeight(requests)
    IN  IF Exceeds(totalWeight, weight, maxReq)
        THEN IF requests = <<>>
             \* requests[0] is undefined: reading .timestamp throws a TypeError
             \* before inMemoryStore.set is reached
             THEN [requests |-> stored, written |-> FALSE,
                   result |-> Thrown("check", key, weight, "memory")]
             ELSE LET oldestRequest == requests[1]
                      retryAfter ==
                          Ceil(window - (now - oldestRequest.timestamp), MsPerSecond)
                  IN [requests |-> DeniedRequests(requests, weight),
                      written |-> TRUE,
                      result |-> Decision(key, weight, "memory", "decision", FALSE,
                                          0, now + retryAfter * MsPerSecond,
                                          TRUE, retryAfter)]
        ELSE [requests |-> AdmittedRequests(requests, weight),
              written |-> TRUE,
              result |-> Decision(key, weight, "memory", "decision", TRUE,
                                  maxReq - (totalWeight + weight), now + window,
                                  FALSE, 0)]

checkRateLimitMemory(key, maxReq, window, weight) ==
    LET r == MemoryCheck(key, MapGet(key), maxReq, window, weight)
    IN  /\ inMemoryStore' = IF r.written THEN MapSet(key, r.requests)
                            ELSE inMemoryStore
        /\ last' = r.result
        /\ admittedAt' = IF r.result.allowed
                         THEN [admittedAt EXCEPT ![key] = Append(@, now)]
                         ELSE admittedAt
        /\ run' = [run EXCEPT ![key] =
                      RunAfter(key, "memory", key \notin DOMAIN inMemoryStore,
                               weight, r.result)]
        /\ UNCHANGED <<redisStore, redisExpireAt>>

\* ---------------------------------------------------- the Redis sorted set
\* ZREMRANGEBYSCORE key -inf max: removes the members with score <= max
zRemRangeByScore(zset, max) == {m \in zset : m.score > max}

\* ZCARD key
zCard(zset) == Cardinality(zset)

\* ZRANGE key 0 0: the member of lowest score, as a list of member strings
zRange00(zset) ==
    IF zset = {} THEN <<>>
    ELSE <<(CHOOSE m \in zset : \A o \in zset : m.score <= o.score).member>>

\* the member string `${now}-${Math.random()}`: the instant, then a suffix that
\* no other member written at the same instant has
NewMember(zset) ==
    <<now, Cardinality({m \in zset : m.member[1] = now})>>

\* parseInt(member): the leading digits of the member string
parseInt(member) == member[1]

\* ZADD key score member. The `weight` field is history: the weight of the
\* call that wrote the member, which the server does not store and no
\* operation reads
zAdd(zset, score, member, weight) ==
    {m \in zset : m.member # member}
        \cup {[score |-> score, member |-> member, weight |-> weight]}

\* EXPIRE key seconds, the key's members afterwards: a timeout that is not
\* positive deletes the key
expireKeeps(zset, seconds) == IF seconds <= 0 THEN {} ELSE zset

\* EXPIRE key seconds, the key's expiry afterwards: no effect on a key that
\* does not exist (an empty set)
expire(zset, expireAt, seconds) ==
    IF expireKeeps(zset, seconds) = {} THEN -1 ELSE now + seconds * MsPerSecond

\* a key whose last member was removed no longer exists, and has no expiry
KeepExpiry(zset, expireAt) == IF zset = {} THEN -1 ELSE expireAt

\* variant of FailOpen: the request is counted against the limit, as an
\* admission by an empty store would
FailOpenCounted(key, maxReq, window, weight) ==
    Decision(key, weight, "redis", "failopen", TRUE, maxReq - weight,
             now + window, FALSE, 0)

\* variant of FailOpen: the fail-open Decision carries a retryAfter
FailOpenWithRetry(key, maxReq, window, weight) ==
    Decision(key, weight, "redis", "failopen", TRUE, maxReq, now + window, TRUE, 0)

\* the fail-open Decision of the catch block
FailOpen(key, maxReq, window, weight) ==
    Decision(key, weight, "redis", "failopen", TRUE, maxReq, now + window, FALSE, 0)

RedisOps == {"zRemRangeByScore", "zCard", "zRange", "zAdd", "expire"}

\* ---------------------------------------------------- checkRateLimitRedis
\* the body of checkRateLimitRedis; `fail` is the backend operation that
\* throws during this call if the call reaches it, or "none"
RedisCheck(key, zset0, exp0, maxReq, window, weight, fail) ==
    LET windowStart   == WindowStart(window)
        zset1         == zRemRangeByScore(zset0, windowStart)
        exp1          == KeepExpiry(zset1, exp0)
        count         == zCard(zset1)
        currentWeight == count
        open          == FailOpen(key, maxReq, window, weight)
    IN  IF fail = "zRemRangeByScore"
        THEN [zset |-> zset0, expireAt |-> exp0, result |-> open]
        ELSE IF fail = "zCard"
        THEN [zset |-> zset1, expireAt |-> exp1, result |-> open]
        ELSE IF Exceeds(currentWeight, weight, maxReq)
        THEN LET oldest == zRange00(zset1)
                 retryAfter ==
                     IF Len(oldest) > 0
                     THEN Ceil(window - (now - parseInt(oldest[1])), MsPerSecond)
                     ELSE 0
             IN  IF fail \in {"zRange", "expire"}
                 THEN [zset |-> zset1, expireAt |-> exp1, result |-> open]
                 ELSE [zset |-> expireKeeps(zset1, Ceil(window, MsPerSecond)),
                       expireAt |-> expire(zset1, exp1, Ceil(window, MsPerSecond)),
                       result |-> Decision(key, weight, "redis", "decision", FALSE,
                                           0, now + retryAfter * MsPerSecond,
                                           TRUE, retryAfter)]
        ELSE LET zset2 == zAdd(zset1, now, NewMember(zset1), weight)
             IN  IF fail = "zAdd"
                 THEN [zset |-> zset1, expireAt |-> exp1, result |-> open]
                 ELSE IF fail = "expire"
                 THEN [zset |-> zset2, expireAt |-> exp1, result |-> open]
                 ELSE [zset |-> expireKeeps(zset2, Ceil(window, MsPerSecond)),
                       expireAt |-> expire(zset2, exp1, Ceil(window, MsPerSecond)),
                       result |-> Decision(key, weight, "redis", "decision", TRUE,
                                           maxReq - (currentWeight + weight),
                                           now + window, FALSE, 0)]

checkRateLimitRedis(key, maxReq, window, weight, fail) ==
    LET r == RedisCheck(key, redisStore[key], redisExpireAt[key],
                        maxReq, window, weight, fail)
    IN  /\ redisStore' = [redisStore EXCEPT ![key] = r.zset]
        /\ redisExpireAt' = [redisExpireAt EXCEPT ![key] = r.expireAt]
        /\ last' = r.result
        /\ run' = [run EXCEPT ![key] =
                      RunAfter(key, "redis", redisStore[key] = {}, weight, r.result)]
        /\ UNCHANGED <<inMemoryStore, admittedAt>>

\* --------------------------------------------------------- checkRateLimit
\* checkRateLimit(key, maxRequests, windowMs, weight) with a weight of
\* `weights`, against a backend that fails at one of `fails` ("none": at none)
checkRateLimitCall(weights, fails) ==
    \E key \in Keys, weight \in weights :
        /\ IF redisClient
           THEN \E fail \in fails :
                   checkRateLimitRedis(key, maxRequests, windowMs, weight, fail)
           ELSE checkRateLimitMemory(key, maxRequests, windowMs, weight)
        /\ UNCHANGED <<now, redisUrl, redisClient, initialized, connecting,
                       maxRequests, windowMs, calls, clients, held, http>>

\* a call of checkRateLimit with a weight of `weights`
checkRateLimitWith(weights) ==
    /\ checkRateLimitCall(weights, RedisOps \cup {"none"})
    /\ UNCHANGED denial

\* the calls the call sites make: a positive weight
checkRateLimit == checkRateLimitWith(1..MaxWeight)

\* --------------------------------------------------------- resetRateLimit
resetRateLimit ==
    \E key \in Keys :
        /\ IF redisClient
           THEN /\ \E fails \in BOOLEAN :
                     IF fails
                     \* redisClient.del rejects, and so does resetRateLimit
                     THEN /\ last' = Thrown("reset", key, 0, "redis")
                          /\ UNCHANGED <<redisStore, redisExpireAt>>
                     ELSE /\ redisStore' = [redisStore EXCEPT ![key] = {}]
                          /\ redisExpireAt' = [redisExpireAt EXCEPT ![key] = -1]
                          /\ last' = Returned("reset", key, "redis", 0)
                /\ UNCHANGED <<inMemoryStore, admittedAt>>
           ELSE /\ inMemoryStore' = MapDelete(key)
                /\ admittedAt' = [admittedAt EXCEPT ![key] = <<>>]
                /\ last' = Returned("reset", key, "memory", 0)
                /\ UNCHANGED <<redisStore, redisExpireAt>>
        /\ UNCHANGED <<now, redisUrl, redisClient, initialized, connecting,
                       maxRequests, windowMs, calls, rest, run>>

\* ----------------------------------------------------- getRateLimitStatus
getRateLimitStatus ==
    \E key \in Keys :
        /\ IF redisClient
           THEN \E fails \in BOOLEAN :
                   last' = IF fails THEN Thrown("status", key, 0, "redis")
                           ELSE Returned("status", key, "redis",
                                         zCard(redisStore[key]))
           ELSE last' = Returned("status", key, "memory", SumWeight(MapGet(key)))
        /\ UNCHANGED <<prog, calls, rest, hist>>

\* --------------------------------------------------- initializeRateLimiter
\* variant of initializeRateLimiter: a call made after the limiter fell back
\* to the in-memory store tries to connect again
initializeRateLimiterRetries ==
    /\ ~connecting
    /\ IF initialized /\ (redisClient \/ ~redisUrl)
       THEN /\ UNCHANGED <<redisClient, initialized, connecting>>
            /\ last' = [NoCall EXCEPT !.op = "init", !.outcome = "ok"]
       ELSE IF redisUrl
       THEN /\ redisClient' = TRUE
            /\ connecting' = TRUE
            /\ UNCHANGED initialized
            /\ last' = [NoCall EXCEPT !.op = "init"]
       ELSE /\ initialized' = TRUE
            /\ UNCHANGED <<redisClient, connecting>>
            /\ last' = [NoCall EXCEPT !.op = "init", !.outcome = "ok"]
    /\ run' = IF redisClient' # redisClient THEN NoRuns ELSE run
    /\ UNCHANGED <<now, redisUrl, inMemoryStore, redisStore, redisExpireAt,
                   maxRequests, windowMs, calls, rest, admittedAt>>

\* up to `await redisClient.connect()`, or to the end when REDIS_URL is unset
\* or the limiter is already initialized
initializeRateLimiter ==
    /\ ~connecting
    /\ IF initialized
       THEN /\ UNCHANGED <<redisClient, initialized, connecting>>
            /\ last' = [NoCall EXCEPT !.op = "init", !.outcome = "ok"]
       ELSE IF redisUrl
       THEN \E created \in BOOLEAN :
               IF created
               THEN /\ redisClient' = TRUE
                    /\ connecting' = TRUE
                    /\ UNCHANGED initialized
                    /\ last' = [NoCall EXCEPT !.op = "init"]
               \* new URL(...) or createClient(...) throws before redisClient
               \* is assigned: the catch block, then `initialized = true`
               ELSE /\ initialized' = TRUE
                    /\ UNCHANGED <<redisClient, connecting>>
                    /\ last' = [NoCall EXCEPT !.op = "init", !.outcome = "fallback"]
       ELSE /\ initialized' = TRUE
            /\ UNCHANGED <<redisClient, connecting>>
            /\ last' = [NoCall EXCEPT !.op = "init", !.outcome = "ok"]
    /\ run' = IF redisClient' # redisClient THEN NoRuns ELSE run
    /\ UNCHANGED <<now, redisUrl, inMemoryStore, redisStore, redisExpireAt,
                   maxRequests, windowMs, calls, rest, admittedAt>>

\* connect() resolves: the rest of the try block and `initialized = true`
connectResolves ==
    /\ connecting
    /\ connecting' = FALSE
    /\ initialized' = TRUE
    /\ last' = [NoCall EXCEPT !.op = "init", !.outcome = "ok"]
    /\ UNCHANGED <<now, redisUrl, redisClient, inMemoryStore, redisStore,
                   redisExpireAt, maxRequests, windowMs, calls, rest, hist>>

\* variant of connectRejects: the catch block leaves the client that failed
\* to connect in redisClient
connectRejectsKeepsClient ==
    /\ connecting
    /\ connecting' = FALSE
    /\ initialized' = TRUE
    /\ last' = [NoCall EXCEPT !.op = "init", !.outcome = "fallback"]
    /\ UNCHANGED <<now, redisUrl, redisClient, inMemoryStore, redisStore,
                   redisExpireAt, maxRequests, windowMs, calls, rest, hist>>

\* connect() rejects: the catch block and `initialized = true`
connectRejects ==
    /\ connecting
    /\ connecting' = FALSE
    /\ redisClient' = FALSE
    /\ initialized' = TRUE
    /\ last' = [NoCall EXCEPT !.op = "init", !.outcome = "fallback"]
    /\ run' = NoRuns
    /\ UNCHANGED <<now, redisUrl, inMemoryStore, redisStore, redisExpireAt,
                   maxRequests, windowMs, calls, rest, admittedAt>>

\* ------------------------------------------------------- closeRateLimiter
closeRateLimiter ==
    /\ \E fails \in BOOLEAN :
        IF redisClient /\ fails
        \* quit() rejects: nothing after it runs
        THEN /\ last' = Thrown("close", "", 0, "redis")
             /\ UNCHANGED <<redisClient, inMemoryStore, initialized, hist>>
        ELSE /\ redisClient' = FALSE
             /\ inMemoryStore' = << >>
             /\ initialized' = FALSE
             /\ admittedAt' = [k \in Keys |-> <<>>]
             /\ run' = NoRuns
             /\ last' = Returned("close", "", "none", 0)
    /\ UNCHANGED <<now, redisUrl, connecting, redisStore, redisExpireAt,
                   maxRequests, windowMs, calls, rest>>

\* ------------------------------------------------------------------ clock
\* the server drops a key once the clock has passed its expiry
ExpireKeys(t) ==
    [k \in Keys |-> IF redisExpireAt[k] # -1 /\ t > redisExpireAt[k]
                    THEN {} ELSE redisStore[k]]

Tick ==
    /\ \E t \in Instants :
        /\ t > now
        /\ now' = t
        /\ redisStore' = ExpireKeys(t)
        /\ redisExpireAt' =
              [k \in Keys |-> KeepExpiry(ExpireKeys(t)[k], redisExpireAt[k])]
        /\ run' = RunAt(t)
    /\ last' = NoCall
    /\ UNCHANGED <<redisUrl, redisClient, initialized, connecting, inMemoryStore,
                   maxRequests, windowMs, calls, rest, admittedAt>>

\* every operation may be called at any time, in any lifecycle state
Next ==
    \/ Tick
    \/ checkRateLimit
    \/ resetRateLimit
    \/ getRateLimitStatus
    \/ initializeRateLimiter
    \/ connectResolves
    \/ connectRejects
    \/ closeRateLimiter

Spec == Init /\ [][Next]_vars

\* ------------------------------------------------- the server's discipline
\* The server awaits initializeRateLimiter() at startup before it serves a
\* request, and exits right after closeRateLimiter(): from startup to
\* shutdown, checks, resets and status reads are made while `initialized`
\* holds and no connect is pending.
Ready == initialized /\ ~connecting

NextServer ==
    \/ Tick
    \/ Ready /\ checkRateLimit
    \/ Ready /\ resetRateLimit
    \/ Ready /\ getRateLimitStatus
    \/ initializeRateLimiter
    \/ connectResolves
    \/ connectRejects

SpecServer == Init /\ [][NextServer]_vars

\* ------------------------------------------- callers that pass any number
\* checkRateLimit takes its numbers as they come: maxRequests, windowMs and
\* weight are plain `number` parameters, and a caller may pass zero or a
\* negative number
AnyLimits == 0..1
AnyWindows == {0, 1000}
AnyWeights == -1..1

InitUnvalidated == InitWith(AnyLimits, AnyWindows)

\* a request of weight zero or less is admitted however many were admitted
\* before it: the calls stop once MaxEvents requests were admitted on a key
FewEvents ==
    \A k \in Keys :
        /\ Len(MapGet(k)) + Cardinality(redisStore[k]) < MaxEvents
        /\ Len(admittedAt[k]) < MaxEvents

NextUnvalidated ==
    \/ Tick
    \/ Ready /\ FewEvents /\ checkRateLimitWith(AnyWeights)
    \/ initializeRateLimiter
    \/ connectResolves
    \/ connectRejects

SpecUnvalidated == InitUnvalidated /\ [][NextUnvalidated]_vars

\* --------------------------------------------- calls at any lifecycle state
\* Nothing in the module keeps a caller from checking before
\* initializeRateLimiter has completed or after closeRateLimiter: unit-weight
\* checks, initialisation and shutdown in any order, for one call site.
InitLifecycle == InitWith({1}, {1000})

NextLifecycle ==
    \/ Tick
    \/ checkRateLimitWith({1})
    \/ initializeRateLimiter
    \/ connectResolves
    \/ connectRejects
    \/ closeRateLimiter

SpecLifecycle == InitLifecycle /\ [][NextLifecycle]_vars

\* ------------------------------------------ checkRateLimit calls in flight
\* checkRateLimit is an async function: a call runs without interruption up
\* to its first `await` and, from then on, from one `await` to the next, and
\* the calls of other callers run in between. checkRateLimitMemory holds no
\* `await`; checkRateLimitRedis awaits each backend operation. The callers
\* pass weight 1. The clock is read once per call (Date.now() at the top of
\* either function) and does not advance while an operation is awaited.
InFlight(c, at, key, count, result) ==
    [calls EXCEPT ![c] = [at |-> at, key |-> key, count |-> count,
                          result |-> result]]

\* checkRateLimit(key, maxRequests, windowMs) is called: against the in-memory
\* store the whole of checkRateLimitMemory runs and the Decision waits to be
\* delivered; against Redis the call issues zRemRangeByScore and awaits it
beginCheck(c) ==
    /\ Ready
    /\ calls[c].at = "idle"
    /\ \E key \in Keys :
        IF redisClient
        THEN /\ calls' = InFlight(c, "zRemRangeByScore", key, 0, NoCall)
             /\ UNCHANGED <<inMemoryStore, admittedAt>>
        ELSE LET r == MemoryCheck(key, MapGet(key), maxRequests, windowMs, 1)
             IN  /\ inMemoryStore' = IF r.written THEN MapSet(key, r.requests)
                                     ELSE inMemoryStore
                 /\ admittedAt' = IF r.result.allowed
                                  THEN [admittedAt EXCEPT ![key] = Append(@, now)]
                                  ELSE admittedAt
                 /\ calls' = InFlight(c, "return", key, 0, r.result)
    /\ UNCHANGED <<now, redisUrl, redisClient, initialized, connecting,
                   redisStore, redisExpireAt, maxRequests, windowMs, last, rest, run>>

\* the backend operation a call awaits is carried out and answered: the call
\* runs on to its next `await`, or to its `return`
backendReplies(c) ==
    LET call  == calls[c]
        key   == call.key
        zset  == redisStore[key]
        secs  == Ceil(windowMs, MsPerSecond)
    IN  /\ call.at \in RedisOps
        /\ IF call.at = "zRemRangeByScore"
           THEN LET zset1 == zRemRangeByScore(zset, WindowStart(windowMs))
                IN  /\ redisStore' = [redisStore EXCEPT ![key] = zset1]
                    /\ redisExpireAt' = [redisExpireAt EXCEPT ![key] =
                                            KeepExpiry(zset1, @)]
                    /\ calls' = InFlight(c, "zCard", key, 0, NoCall)
           ELSE IF call.at = "zCard"
           THEN /\ calls' = InFlight(c, IF Exceeds(zCard(zset), 1, maxRequests)
                                        THEN "zRange" ELSE "zAdd",
                                     key, zCard(zset), NoCall)
                /\ UNCHANGED <<redisStore, redisExpireAt>>
           ELSE IF call.at = "zRange"
           THEN LET oldest == zRange00(zset)
                    retryAfter ==
                        IF Len(oldest) > 0
                        THEN Ceil(windowMs - (now - parseInt(oldest[1])), MsPerSecond)
                        ELSE 0
                IN  /\ calls' = InFlight(c, "expire", key, call.count,
                                   Decision(key, 1, "redis", "decision", FALSE, 0,
                                            now + retryAfter * MsPerSecond,
                                            TRUE, retryAfter))
                    /\ UNCHANGED <<redisStore, redisExpireAt>>
           ELSE IF call.at = "zAdd"
           THEN /\ redisStore' = [redisStore EXCEPT ![key] =
                                     zAdd(zset, now, NewMember(zset), 1)]
                /\ calls' = InFlight(c, "expire", key, call.count,
                                   Decision(key, 1, "redis", "decision", TRUE,
                                            maxRequests - (call.count + 1),
                                            now + windowMs, FALSE, 0))
                /\ UNCHANGED redisExpireAt
           ELSE /\ redisStore' = [redisStore EXCEPT ![key] = expireKeeps(zset, secs)]
                /\ redisExpireAt' = [redisExpireAt EXCEPT ![key] =
                                        expire(zset, @, secs)]
                /\ calls' = InFlight(c, "return", key, call.count, call.result)
        /\ UNCHANGED <<now, redisUrl, redisClient, initialized, connecting,
                       inMemoryStore, maxRequests, windowMs, last, rest, hist>>

\* the backend operation a call awaits is rejected: the catch block
backendRejects(c) ==
    /\ calls[c].at \in RedisOps
    /\ calls' = InFlight(c, "return", calls[c].key, calls[c].count,
                        FailOpen(calls[c].key, maxRequests, windowMs, 1))
    /\ UNCHANGED <<prog, last, rest, hist>>

\* the backend stops answering: the operation a call awaits is never settled.
\* The client is created with a connectTimeout only: no command carries a
\* timeout, and nothing else wakes the call
backendSilent(c) ==
    /\ calls[c].at \in RedisOps
    /\ calls' = InFlight(c, "unanswered", calls[c].key, calls[c].count, NoCall)
    /\ UNCHANGED <<prog, last, rest, hist>>

\* the promise of a call settles: the caller gets calls[c].result, the
\* Decision or the error, and may call again
returnCheck(c) ==
    /\ calls[c].at = "return"
    /\ calls' = [calls EXCEPT ![c] = IdleCall]
    /\ UNCHANGED <<prog, last, rest, hist>>

\* the clock advances between the calls: while no call is on its way
TickBetweenCalls ==
    /\ \A c \in Callers : calls[c].at \in {"idle", "unanswered"}
    /\ Tick

\* one call site, with a window of one second
InitConcurrent == InitWith(1..MaxRequestsMax, {1000})

NextConcurrent ==
    \/ TickBetweenCalls
    \/ \E c \in Callers : beginCheck(c)
    \/ \E c \in Callers : backendReplies(c)
    \/ \E c \in Callers : backendRejects(c)
    \/ \E c \in Callers : backendSilent(c)
    \/ \E c \in Callers : returnCheck(c)
    \/ initializeRateLimiter
    \/ connectResolves
    \/ connectRejects

SpecConcurrent == InitConcurrent /\ [][NextConcurrent]_vars

\* the event loop runs every continuation that is ready: an operation the
\* backend settles wakes its call, and a settled promise reaches its caller
SpecConcurrentFair ==
    /\ SpecConcurrent
    /\ \A c \in Callers : WF_vars(backendReplies(c) \/ backendRejects(c))
    /\ \A c \in Callers : WF_vars(returnCheck(c))

\* ---------------------------------------------- the clients of the server
\* initializeRateLimiter tests `initialized`, which it sets only as it ends: a
\* call made while another is suspended at `await redisClient.connect()` runs
\* the same code, creates a client of its own and assigns it to redisClient.
\* Here every createClient() returns an object of its own, and redisClient
\* refers to one of them or to none.
LiveClients ==
    {c \in Clients : clients[c] \in {"connecting", "open", "quitting"}}

\* some call of initializeRateLimiter other than the one that awaits client c
\* is suspended at `await connect()`
OthersConnecting(c) ==
    \E o \in Clients \ {c} : clients[o] = "connecting"

\* initializeRateLimiter is called, whatever other calls are suspended: up to
\* `await redisClient.connect()`, or to the end
initializeRateLimiterAnyTime ==
    /\ IF initialized
       THEN /\ UNCHANGED <<redisClient, initialized, connecting, clients, held>>
            /\ last' = [NoCall EXCEPT !.op = "init", !.outcome = "ok"]
       ELSE IF redisUrl
       THEN \/ \E c \in Clients :
                 /\ clients[c] = "none"
                 /\ clients' = [clients EXCEPT ![c] = "connecting"]
                 /\ held' = c
                 /\ redisClient' = TRUE
                 /\ connecting' = TRUE
                 /\ UNCHANGED initialized
                 /\ last' = [NoCall EXCEPT !.op = "init"]
            \* new URL(...) or createClient(...) throws: the catch block,
            \* `redisClient = null`, then `initialized = true`
            \/ /\ redisClient' = FALSE
               /\ held' = "none"
               /\ initialized' = TRUE
               /\ UNCHANGED <<connecting, clients>>
               /\ last' = [NoCall EXCEPT !.op = "init", !.outcome = "fallback"]
       ELSE /\ initialized' = TRUE
            /\ UNCHANGED <<redisClient, connecting, clients, held>>
            /\ last' = [NoCall EXCEPT !.op = "init", !.outcome = "ok"]
    /\ run' = IF redisClient' # redisClient THEN NoRuns ELSE run
    /\ UNCHANGED <<now, redisUrl, inMemoryStore, redisStore, redisExpireAt,
                   maxRequests, windowMs, calls, http, denial, admittedAt>>

\* the connect() of client c settles and the call that awaited it runs to its
\* end: `initialized = true`, after `redisClient = null` when it rejected
connectSettles(c) ==
    /\ clients[c] = "connecting"
    /\ connecting' = OthersConnecting(c)
    /\ initialized' = TRUE
    /\ \E resolves \in BOOLEAN :
          IF resolves
          THEN /\ clients' = [clients EXCEPT ![c] = "open"]
               /\ UNCHANGED <<redisClient, held>>
               /\ last' = [NoCall EXCEPT !.op = "init", !.outcome = "ok"]
          ELSE /\ clients' = [clients EXCEPT ![c] = "failed"]
               /\ redisClient' = FALSE
               /\ held' = "none"
               /\ last' = [NoCall EXCEPT !.op = "init", !.outcome = "fallback"]
    /\ run' = IF redisClient' # redisClient THEN NoRuns ELSE run
    /\ UNCHANGED <<now, redisUrl, inMemoryStore, redisStore, redisExpireAt,
                   maxRequests, windowMs, calls, http, denial, admittedAt>>

\* closeRateLimiter is called, at shutdown: no connect is pending and no other
\* close is on its way. Up to `await redisClient.quit()`, or to the end when
\* redisClient is null
closeRateLimiterAwaitsQuit ==
    /\ ~connecting
    /\ \A c \in Clients : clients[c] # "quitting"
    /\ IF redisClient
       THEN /\ clients' = [clients EXCEPT ![held] = "quitting"]
            /\ last' = [NoCall EXCEPT !.op = "close"]
            /\ UNCHANGED <<inMemoryStore, initialized, hist>>
       ELSE /\ inMemoryStore' = << >>
            /\ initialized' = FALSE
            /\ admittedAt' = [k \in Keys |-> <<>>]
            /\ run' = NoRuns
            /\ last' = Returned("close", "", "none", 0)
            /\ UNCHANGED clients
    /\ UNCHANGED <<now, redisUrl, redisClient, connecting, redisStore,
                   redisExpireAt, maxRequests, windowMs, calls, held, http,
                   denial>>

\* the quit() of client c settles and the call that awaited it runs on:
\* `redisClient = null`, the map cleared, `initialized = false`; or, when
\* quit() rejected, nothing more, the client left open or closed
quitSettles(c) ==
    /\ clients[c] = "quitting"
    /\ \E resolves \in BOOLEAN :
          IF resolves
          THEN /\ clients' = [clients EXCEPT ![c] = "closed"]
               /\ redisClient' = FALSE
               /\ held' = "none"
               /\ inMemoryStore' = << >>
               /\ initialized' = FALSE
               /\ admittedAt' = [k \in Keys |-> <<>>]
               /\ run' = NoRuns
               /\ last' = Returned("close", "", "none", 0)
          ELSE /\ \E left \in {"open", "closed"} :
                    clients' = [clients EXCEPT ![c] = left]
               /\ last' = Thrown("close", "", 0, "redis")
               /\ UNCHANGED <<redisClient, held, inMemoryStore, initialized,
                              hist>>
    /\ UNCHANGED <<now, redisUrl, connecting, redisStore, redisExpireAt,
                   maxRequests, windowMs, calls, http, denial>>

\* one call site, unit weights
InitClients == InitWith({1}, {1000})

NextClients ==
    \/ Tick
    \/ checkRateLimitWith({1})
    \/ initializeRateLimiterAnyTime
    \/ \E c \in Clients : connectSettles(c)
    \/ closeRateLimiterAwaitsQuit
    \/ \E c \in Clients : quitSettles(c)

SpecClients == InitClients /\ [][NextClients]_vars

\* ------------------------------------------------ the admin route's front
\* the requests one client sends in a row to GET /api/admin/users
RapidRequests == 15

\* GET /api/admin/users as createServer mounts it: the request passes cors,
\* the security headers, the body parsers and the IP middleware, none of which
\* answers it, and reaches handleGetAllUsers. No middleware of the router and
\* no line of the handler calls checkRateLimit. The handler answers 500 when
\* the body holds no idToken or the token cannot be verified, 403 when the
\* user is no admin, 200 with the users, and 500 when fetching them fails.
handleGetAllUsers ==
    /\ http.sent < RapidRequests
    /\ \E hasIdToken \in BOOLEAN, token \in {"invalid", "user", "admin"},
          fetched \in BOOLEAN :
          LET status == IF ~hasIdToken \/ token = "invalid" THEN 500
                        ELSE IF token = "user" THEN 403
                        ELSE IF fetched THEN 200 ELSE 500
          IN  http' = [sent    |-> http.sent + 1,
                       status  |-> status,
                       limited |-> http.limited \/ status = 429]
    /\ UNCHANGED <<prog, calls, last, clients, held, denial, hist>>

InitAdminRoute == InitWith({1}, {1000})

NextAdminRoute ==
    \/ Tick
    \/ handleGetAllUsers
    \/ initializeRateLimiter
    \/ connectResolves
    \/ connectRejects

SpecAdminRoute == InitAdminRoute /\ [][NextAdminRoute]_vars

\* ------------------------------------------- one call site, heavy requests
\* a call site whose requests all weigh MaxWeight, with a limit that more than
\* one of them fits under but not two
HeavyLimits == {2 * MaxWeight - 1}

InitHeavy == InitWith(HeavyLimits, Windows)

NextHeavy ==
    \/ Tick
    \/ Ready /\ checkRateLimitWith({MaxWeight})
    \/ initializeRateLimiter
    \/ connectResolves
    \/ connectRejects

SpecHeavy == InitHeavy /\ [][NextHeavy]_vars

\* ------------------------------------------------ the two stores side by side
\* The same calls, at the same instants, made to a process that runs on the
\* in-memory store and to one that runs on a Redis server that answers every
\* operation: inMemoryStore is the state of the first, redisStore and
\* redisExpireAt that of the second. `last` is what the first returned.
checkBothStores(weights) ==
    \E key \in Keys, weight \in weights :
        LET m == MemoryCheck(key, MapGet(key), maxRequests, windowMs, weight)
            r == RedisCheck(key, redisStore[key], redisExpireAt[key],
                            maxRequests, windowMs, weight, "none")
        IN  /\ inMemoryStore' = IF m.written THEN MapSet(key, m.requests)
                                ELSE inMemoryStore
            /\ redisStore' = [redisStore EXCEPT ![key] = r.zset]
            /\ redisExpireAt' = [redisExpireAt EXCEPT ![key] = r.expireAt]
            /\ last' = m.result
            /\ admittedAt' = IF m.result.allowed
                             THEN [admittedAt EXCEPT ![key] = Append(@, now)]
                             ELSE admittedAt
            /\ UNCHANGED <<now, redisUrl, redisClient, initialized, connecting,
                           maxRequests, windowMs, calls, rest, run>>

resetBothStores ==
    \E key \in Keys :
        /\ inMemoryStore' = MapDelete(key)
        /\ redisStore' = [redisStore EXCEPT ![key] = {}]
        /\ redisExpireAt' = [redisExpireAt EXCEPT ![key] = -1]
        /\ admittedAt' = [admittedAt EXCEPT ![key] = <<>>]
        /\ last' = Returned("reset", key, "memory", 0)
        /\ UNCHANGED <<now, redisUrl, redisClient, initialized, connecting,
                       maxRequests, windowMs, calls, rest, run>>

NextBothStores ==
    \/ Tick
    \/ checkBothStores(1..MaxWeight)
    \/ resetBothStores

SpecBothStores == Init /\ [][NextBothStores]_vars

\* the same, for callers that pass weight 1 only
NextBothStoresUnit ==
    \/ Tick
    \/ checkBothStores({1})
    \/ resetBothStores

SpecBothStoresUnit == Init /\ [][NextBothStoresUnit]_vars

\* --------------------------------------------- a process left to itself
\* The server between startup and shutdown, with callers that check and read
\* the status when they please and a clock that keeps running. The module
\* starts no timer: nothing runs but what a caller calls.
InitIdle == InitWith({1}, {1000})

NextIdle ==
    \/ Tick
    \/ Ready /\ checkRateLimitWith({1})
    \/ Ready /\ getRateLimitStatus
    \/ initializeRateLimiter
    \/ connectResolves
    \/ connectRejects

SpecIdle == InitIdle /\ [][NextIdle]_vars

\* time passes
SpecIdleFair == SpecIdle /\ WF_vars(Tick)

\* ------------------------------------------------- callers that come back
\* checkRateLimit as a caller sees it who keeps the resetTime of a denial and
\* comes back: the call, and the history of the key's denials
checkRateLimitNotingDenials ==
    /\ checkRateLimitCall(1..MaxWeight, RedisOps \cup {"none"})
    /\ denial' = [denial EXCEPT ![last'.key] = DenialAfter(last'.key, last')]

NextRetry ==
    \/ Tick
    \/ Ready /\ checkRateLimitNotingDenials
    \/ initializeRateLimiter
    \/ connectResolves
    \/ connectRejects

SpecRetry == Init /\ [][NextRetry]_vars

\* ======================================================== the properties
\* what the properties read of a call's result
IsCheck == last.op = "check"
IsDecision == IsCheck /\ last.outcome \in {"decision", "failopen"}
ByStore == IsCheck /\ last.outcome = "decision"
Denied == IsDecision /\ ~last.allowed

\* the least whole number of seconds that is at least ms milliseconds
WholeSeconds(ms) ==
    IF ms <= 0 THEN 0
    ELSE CHOOSE n \in 1..ms : n * 1000 >= ms /\ (n - 1) * 1000 < ms

RECURSIVE WeightSince(_, _)
\* the weight of the requests of an array that are not older than `from`
WeightSince(requests, from) ==
    IF requests = <<>> THEN 0
    ELSE (IF Head(requests).timestamp >= from THEN Head(requests).weight ELSE 0)
         + WeightSince(Tail(requests), from)

\* ------------------------------------------------------------------- C1
\* the admissions of the in-memory store on key k at instants from..to-1
AdmittedIn(k, from, to) ==
    {i \in 1..Len(admittedAt[k]) : admittedAt[k][i] >= from /\ admittedAt[k][i] < to}

C2_WeightInvariant ==
    (ByStore /\ last.via = "memory" /\ last.allowed)
        => WeightSince(MapGet(last.key), now - windowMs) <= maxRequests

\* a request heavier than 1 was admitted and fills the window exactly
C2_Witness ==
    /\ ByStore /\ last.via = "memory" /\ last.allowed
    /\ last.weight > 1
    /\ WeightSince(MapGet(last.key), now - windowMs) = maxRequests

\* ------------------------------------------------------------------- C3
\* C3: a call whose weight is greater than maxRequests gets a Decision with
\* allowed=false, whatever the key holds and whichever store is active: it
\* does not throw and is not admitted.
C3_HeavyRequestDenied ==
    (IsCheck /\ last.weight > maxRequests)
        => (last.outcome = "decision" /\ ~last.allowed)

\* ------------------------------------------------------------------- C4
\* C4: the unit-weight calls made one after the other on a key that had no
\* state, all inside one window: the n-th, for n <= maxRequests, returns
\* allowed=true with remaining = maxRequests - n; the next one returns
\* allowed=false with retryAfter the whole seconds left until the first call's
\* event is windowMs old. In both stores.
C4_SequentialCalls ==
    \A k \in Keys :
        (IsCheck /\ last.key = k /\ run[k].n >= 1)
            => IF run[k].n <= maxRequests
               THEN /\ last.outcome = "decision" /\ last.allowed
                    /\ last.remaining = maxRequests - run[k].n
                    /\ ~last.hasRetryAfter
               ELSE /\ last.outcome = "decision" /\ ~last.allowed
                    /\ last.hasRetryAfter
                    /\ last.retryAfter = WholeSeconds(run[k].first + windowMs - now)

\* the call after the maxRequests-th of a run of the Redis store, some time
\* after the first, with two whole seconds left to wait
C4_Witness ==
    \E k \in Keys :
        /\ IsCheck /\ last.key = k /\ last.via = "redis"
        /\ maxRequests >= 2
        /\ run[k].n = maxRequests + 1
        /\ now > run[k].first
        /\ last.retryAfter = 2

\* ------------------------------------------------------------------- C5
\* the instant of the newest event the active store holds for key k, or -1
NewestEvent(k) ==
    LET stamps == IF redisClient
                  THEN {m.score : m \in redisStore[k]}
                  ELSE {MapGet(k)[i].timestamp : i \in 1..Len(MapGet(k))}
    IN  IF stamps = {} THEN -1
        ELSE CHOOSE t \in stamps : \A u \in stamps : u <= t

\* C5: expiry. With maxRequests = 1, a unit-weight call made windowMs + 1 ms
\* after the newest event the key holds (the last admission, nothing admitted
\* since) returns allowed=true. In both stores.
C5_Expiry ==
    [][(/\ last'.op = "check" /\ last'.weight = 1
        /\ maxRequests = 1
        /\ NewestEvent(last'.key) # -1
        /\ now = NewestEvent(last'.key) + windowMs + 1)
       => (last'.outcome \in {"decision", "failopen"} /\ last'.allowed)]_vars

\* the in-memory store admitted a call at t and the next at t + windowMs + 1
C5_Witness ==
    \E k \in Keys :
        /\ maxRequests = 1
        /\ ByStore /\ last.allowed /\ last.key = k /\ last.weight = 1
        /\ Len(admittedAt[k]) >= 2
        /\ admittedAt[k][Len(admittedAt[k])]
              = admittedAt[k][Len(admittedAt[k]) - 1] + windowMs + 1
        /\ now = admittedAt[k][Len(admittedAt[k])]

\* ------------------------------------------------------------------- C6
\* C6: every Decision with allowed=false has
\* 0 <= retryAfter <= ceil(windowMs / 1000), in both stores.
C6_RetryAfterRange ==
    Denied => (last.retryAfter >= 0 /\ last.retryAfter <= WholeSeconds(windowMs))

\* a denial with the largest retryAfter, for a window of one and a half seconds
C6_Witness ==
    /\ Denied
    /\ windowMs = 1500
    /\ last.retryAfter = WholeSeconds(windowMs)

\* ------------------------------------------------------------------- C7
\* the events of an in-memory array, each with the number of equal events
\* before it, so that equal events stay apart
Occurrences(requests) ==
    {<<requests[i], Cardinality({j \in 1..i : requests[j] = requests[i]})>> :
        i \in 1..Len(requests)}

\* the key's events as a set, whichever store holds them
EventsOf(via, mem, zsets, k) ==
    IF via = "redis" THEN zsets[k]
    ELSE Occurrences(IF k \in DOMAIN mem THEN mem[k] ELSE <<>>)

\* the instant of an event of either store
StampOf(via, e) == IF via = "redis" THEN e.score ELSE e[1].timestamp

\* the events still counted at `now`: those the prune of a check keeps
LiveOf(via, events) == {e \in events : StampOf(via, e) > now - windowMs}

\* C7: a denied check records nothing. When a store answers allowed=false, the
\* key holds no event it did not hold before, and the events it still counts
\* (timestamp > now - windowMs) are the same as before: only events that no
\* longer count were removed. In both stores.
C7_DeniedRecordsNothing ==
    [][(last'.op = "check" /\ last'.outcome = "decision" /\ ~last'.allowed)
       => LET via    == last'.via
              before == EventsOf(via, inMemoryStore, redisStore, last'.key)
              after  == EventsOf(via, inMemoryStore', redisStore', last'.key)
          IN  /\ after \subseteq before
              /\ LiveOf(via, after) = LiveOf(via, before)]_vars

\* the in-memory store denied a call and holds fewer events than it admitted:
\* an expired one was pruned
C7_Witness ==
    \E k \in Keys :
        /\ Denied /\ last.via = "memory" /\ last.key = k
        /\ Len(MapGet(k)) < Len(admittedAt[k])

\* ------------------------------------------------------------------- C8
RECURSIVE WeightOf(_, _)
\* the weight of a set of events of either store
WeightOf(via, events) ==
    IF events = {} THEN 0
    ELSE LET e == CHOOSE x \in events : TRUE
         IN  (IF via = "redis" THEN e.weight ELSE e[1].weight)
             + WeightOf(via, events \ {e})

\* C8: for every Decision a store returned: remaining >= 0; remaining = 0 when
\* allowed=false; remaining = maxRequests - (currentWeight + weight) when
\* allowed=true, currentWeight being the weight of the events the key still
\* counted before the call.
C8_Remaining ==
    [][(last'.op = "check" /\ last'.outcome = "decision")
       => LET via == last'.via
              currentWeight ==
                  WeightOf(via, LiveOf(via, EventsOf(via, inMemoryStore,
                                                      redisStore, last'.key)))
          IN  /\ last'.remaining >= 0
              /\ ~last'.allowed => last'.remaining = 0
              /\ last'.allowed =>
                    last'.remaining = maxRequests - (currentWeight + last'.weight)]_vars

\* what holds of `remaining`: the statement for the in-memory store alone,
\* which adds up the weights it stored
RemainingOfMemory ==
    [][(last'.op = "check" /\ last'.outcome = "decision" /\ last'.via = "memory")
       => LET currentWeight ==
                  WeightOf("memory", LiveOf("memory",
                      EventsOf("memory", inMemoryStore, redisStore, last'.key)))
          IN  /\ last'.remaining >= 0
              /\ ~last'.allowed => last'.remaining = 0
              /\ last'.allowed =>
                    last'.remaining = maxRequests - (currentWeight + last'.weight)]_vars

\* ------------------------------------------------------------------- C9
\* C9: the retry hint is present exactly when the request is denied. Every
\* Decision with allowed=false carries an integer retryAfter, and no Decision
\* with allowed=true does, be it an admission or the fail-open Decision.
C9_RetryAfterIffDenied ==
    IsDecision =>
        /\ last.hasRetryAfter <=> ~last.allowed
        /\ last.hasRetryAfter => last.retryAfter \in Int

\* the Redis store denied a call on a key that holds nothing: the hint is the
\* number 0
C9_Witness ==
    /\ Denied /\ last.via = "redis"
    /\ last.hasRetryAfter /\ last.retryAfter = 0
    /\ redisStore[last.key] = {}

\* ------------------------------------------------------------------ C10
\* what getRateLimitStatus(k) reports from the store routed to
UsageOf(via, mem, zsets, k) ==
    IF via = "redis" THEN Cardinality(zsets[k])
    ELSE WeightOf("memory", Occurrences(IF k \in DOMAIN mem THEN mem[k] ELSE <<>>))

\* the store routed to holds nothing for key k
NoStateOf(via, mem, zsets, k) ==
    IF via = "redis" THEN zsets[k] = {} ELSE k \notin DOMAIN mem

\* C10: resetRateLimit(key) empties the key's state unconditionally. It returns
\* without an error, after it the key has no state and usage 0, whatever was
\* recorded, and a reset of a key that has no state changes nothing, so that
\* two resets in a row leave what one leaves. The Redis store refutes it:
\* a `del` that is rejected reaches the caller and the key keeps its events.
C10_ResetEmpties ==
    [][(last'.op = "reset")
       => LET via == last'.via
              k   == last'.key
          IN  /\ last'.outcome = "ok"
              /\ NoStateOf(via, inMemoryStore', redisStore', k)
              /\ UsageOf(via, inMemoryStore', redisStore', k) = 0
              /\ NoStateOf(via, inMemoryStore, redisStore, k)
                    => /\ inMemoryStore' = inMemoryStore
                       /\ redisStore' = redisStore
                       /\ redisExpireAt' = redisExpireAt]_vars

\* what holds of resetRateLimit: against the in-memory store it never raises
\* an error, and against either store a reset that returned leaves the key
\* without state and with usage 0, and changes nothing when the key had none
ResetThatReturnsEmpties ==
    [][(last'.op = "reset")
       => LET via == last'.via
              k   == last'.key
          IN  /\ via = "memory" => last'.outcome = "ok"
              /\ last'.outcome = "ok" =>
                    /\ NoStateOf(via, inMemoryStore', redisStore', k)
                    /\ UsageOf(via, inMemoryStore', redisStore', k) = 0
                    /\ NoStateOf(via, inMemoryStore, redisStore, k)
                          => /\ inMemoryStore' = inMemoryStore
                             /\ redisStore' = redisStore
                             /\ redisExpireAt' = redisExpireAt]_vars

\* ------------------------------------------------------------------ C11
\* the backend operations a call reaches when none fails: the prune, the count
\* and the expire always, the read of the oldest member when the request is
\* denied, the insert when it is allowed
Reaches(op, unfailed) ==
    \/ op \in {"zRemRangeByScore", "zCard", "expire"}
    \/ op = "zRange" /\ ~unfailed.allowed
    \/ op = "zAdd" /\ unfailed.allowed

\* C11: fail-open. Whenever a backend operation of checkRateLimit fails (the
\* prune, the count, the read of the oldest member, the insert or the expire),
\* the call does not throw and returns allowed=true with
\* remaining = maxRequests, whatever the key, the weight and the prior usage:
\* in every state of the Redis store, for each operation a call would reach,
\* and for the call that was just answered.
C11_FailOpen ==
    /\ \A key \in Keys, weight \in 1..MaxWeight, op \in RedisOps :
          LET unfailed == RedisCheck(key, redisStore[key], redisExpireAt[key],
                                     maxRequests, windowMs, weight, "none").result
              result   == RedisCheck(key, redisStore[key], redisExpireAt[key],
                                     maxRequests, windowMs, weight, op).result
          IN  IF Reaches(op, unfailed)
              THEN /\ result.outcome = "failopen"
                   /\ result.allowed
                   /\ result.remaining = maxRequests
              ELSE result = unfailed
    /\ (IsCheck /\ last.via = "redis") => last.outcome # "throw"
    /\ (IsCheck /\ last.outcome = "failopen")
          => (last.allowed /\ last.remaining = maxRequests)

\* a call on a key that was full was answered by the catch block: allowed,
\* with all of maxRequests remaining
C11_Witness ==
    /\ IsCheck /\ last.outcome = "failopen" /\ last.allowed
    /\ last.remaining = maxRequests
    /\ zCard(LiveOf("redis", redisStore[last.key])) >= maxRequests

\* ------------------------------------------------------------------ C12
\* C12: after a checkRateLimit call that hit a backend failure, the limiter is
\* in LocalFallback: redisClient is unset and the next checkRateLimit,
\* resetRateLimit or getRateLimitStatus call is served by the in-memory store.
C12_FallbackAfterFailure ==
    [][(IsCheck /\ last.outcome = "failopen")
       => /\ ~redisClient
          /\ last'.op \in {"check", "reset", "status"} => last'.via = "memory"]_vars

\* ------------------------------------------------------------------ C13
\* C13: routing after initializeRateLimiter. A connect that resolves leaves the
\* limiter initialized with the Redis store active; a connect that rejects, a
\* client that cannot be created and an unset REDIS_URL leave it initialized
\* with the in-memory store active; from then on the active store does not
\* change, and every check is answered by the active store.
C13_RoutingAfterInit ==
    [][/\ (last'.op = "init" /\ connecting /\ last'.outcome = "ok")
            => (initialized' /\ ~connecting' /\ redisClient' /\ redisUrl)
       /\ (last'.op = "init" /\ last'.outcome = "fallback")
            => (initialized' /\ ~connecting' /\ ~redisClient')
       /\ (last'.op = "init" /\ ~redisUrl)
            => (initialized' /\ ~connecting' /\ ~redisClient')
       /\ Ready => (Ready' /\ redisClient' = redisClient)
       /\ (last'.op = "check" /\ Ready)
            => (last'.via = IF redisClient THEN "redis" ELSE "memory")]_vars

\* REDIS_URL is set, the connect failed, and a check was answered by the
\* in-memory store
C13_Witness ==
    /\ redisUrl /\ Ready /\ ~redisClient
    /\ ByStore /\ last.via = "memory" /\ last.allowed

\* ------------------------------------------------------------------ C14
\* the admissions of the in-memory store on key k that are still inside the
\* window
AdmittedInWindow(k) ==
    {i \in 1..Len(admittedAt[k]) : admittedAt[k][i] > now - windowMs}

\* C14: against the in-memory store, concurrent checkRateLimit calls on one key
\* are serialized. A call is never between its read and its write: it is not
\* begun, or its Decision is made and its write done. No admitted event is
\* lost: the store holds one event for every admission that is still inside
\* the window. And, for unit weights, at most maxRequests of the calls return
\* allowed=true in any span [t, t + windowMs).
C14_MemorySerialized ==
    (Ready /\ ~redisClient)
        => /\ \A c \in Callers : calls[c].at \in {"idle", "return"}
           /\ \A k \in Keys :
                /\ Len(FilterRequests(MapGet(k), now - windowMs))
                      = Cardinality(AdmittedInWindow(k))
                /\ Cardinality(AdmittedInWindow(k)) <= maxRequests
                /\ \A i \in 1..Len(admittedAt[k]) :
                      Cardinality(AdmittedIn(k, admittedAt[k][i],
                                             admittedAt[k][i] + windowMs))
                          <= maxRequests

\* two calls are in flight at once against the in-memory store, the window is
\* full: one was allowed with nothing remaining, the other denied
C14_Witness ==
    /\ ~redisClient
    /\ calls["c1"].at = "return" /\ calls["c2"].at = "return"
    /\ calls["c1"].result.outcome = "decision" /\ calls["c1"].result.allowed
    /\ calls["c1"].result.remaining = 0
    /\ calls["c2"].result.outcome = "decision" /\ ~calls["c2"].result.allowed
    /\ \E k \in Keys : Cardinality(AdmittedInWindow(k)) = maxRequests

\* ------------------------------------------------------------------ C15
\* C15: against Redis the prune, the count and the conditional insert of a
\* check are separate steps. A call inserts on the strength of the count it
\* read (count + 1 <= maxRequests), whatever other calls inserted since, and
\* the Decision it returns is computed from that count. So the key can hold
\* more events inside the window than maxRequests allows: up to one more for
\* each other caller with a call in flight.
C15_InsertAfterStaleCount ==
    /\ \A c \in Callers :
          /\ calls[c].at = "zAdd" => calls[c].count + 1 <= maxRequests
          /\ calls[c].at = "zRange" => calls[c].count + 1 > maxRequests
          /\ (calls[c].at \in {"expire", "return"}
                /\ calls[c].result.outcome = "decision"
                /\ calls[c].result.via = "redis")
               => /\ calls[c].result.allowed <=> calls[c].count + 1 <= maxRequests
                  /\ calls[c].result.allowed
                        => calls[c].result.remaining
                              = maxRequests - (calls[c].count + 1)
    /\ \A k \in Keys :
          Cardinality(LiveOf("redis", redisStore[k]))
              <= maxRequests + Cardinality(Callers) - 1

\* two calls in flight read the same count and both return allowed=true: the
\* key holds more events inside the window than maxRequests
C15_Witness ==
    /\ calls["c1"].at = "return" /\ calls["c2"].at = "return"
    /\ calls["c1"].result.outcome = "decision" /\ calls["c1"].result.allowed
    /\ calls["c2"].result.outcome = "decision" /\ calls["c2"].result.allowed
    /\ calls["c1"].result.via = "redis" /\ calls["c2"].result.via = "redis"
    /\ calls["c1"].count = calls["c2"].count
    /\ \E k \in Keys :
          /\ calls["c1"].key = k /\ calls["c2"].key = k
          /\ Cardinality(LiveOf("redis", redisStore[k])) > maxRequests

\* ------------------------------------------------------------------ C16
\* C16: a checkRateLimit call with weight <= 0, maxRequests <= 0 or
\* windowMs <= 0 is rejected with an error, not a Decision, before a store is
\* read or written: no event is recorded and none is pruned.
C16_InvalidArgumentsRejected ==
    [][(last'.op = "check"
          /\ (last'.weight <= 0 \/ maxRequests <= 0 \/ windowMs <= 0))
       => /\ last'.outcome = "throw"
          /\ inMemoryStore' = inMemoryStore
          /\ redisStore' = redisStore
          /\ redisExpireAt' = redisExpireAt]_vars

\* ------------------------------------------------------------------ C17
\* C17: a checkRateLimit call received before initializeRateLimiter has
\* completed, or after closeRateLimiter, is answered with an error: not with a
\* Decision, and without an event being recorded or pruned.
C17_NotInitializedRejected ==
    [][(last'.op = "check" /\ ~Ready)
       => /\ last'.outcome = "throw"
          /\ inMemoryStore' = inMemoryStore
          /\ redisStore' = redisStore
          /\ redisExpireAt' = redisExpireAt]_vars

\* ------------------------------------------------------------------ C18
\* C18: resetRateLimit and getRateLimitStatus complete without raising an
\* error to the caller, whichever store is active and whether or not the
\* backend answers.
C18_AdminCallsSucceed ==
    last.op \in {"reset", "status"} => last.outcome = "ok"

\* ------------------------------------------------------------------ C19
\* C19: expired events never count. The currentUsage getRateLimitStatus(key)
\* reports is the weight of the key's recorded events that are still inside
\* the window at the time of the call, pruned or not.
C19_ExpiredNeverCount ==
    (last.op = "status" /\ last.outcome = "ok")
        => last.currentUsage
              = WeightOf(last.via, LiveOf(last.via,
                    EventsOf(last.via, inMemoryStore, redisStore, last.key)))

\* what holds of getRateLimitStatus: it reports everything that is stored, the
\* weights of the in-memory array and the number of members of the sorted set
StatusReportsStored ==
    (last.op = "status" /\ last.outcome = "ok")
        => last.currentUsage
              = IF last.via = "redis" THEN Cardinality(redisStore[last.key])
                ELSE SumWeight(MapGet(last.key))

\* ------------------------------------------------------------------ C20
\* C20: no unbounded hang. Every checkRateLimit call that awaits a backend
\* operation eventually has a Decision to return, even when the backend stops
\* answering.
C20_EveryCallReturns ==
    \A c \in Callers :
        (calls[c].at \in RedisOps) ~> (calls[c].at = "return")

\* what holds of a call in flight: it returns when the backend settles each of
\* its operations, and a call left without an answer never does
UnansweredNeverReturns ==
    [][\A c \in Callers :
          calls[c].at = "unanswered" => calls'[c].at = "unanswered"]_vars
\* ------------------------------------------------------------------ C21
\* C21: at most one connection to the Redis server exists in the process at
\* any time. Whatever the interleaving of initializeRateLimiter calls, checks
\* and closeRateLimiter, at most one client is live (connecting, open or
\* quitting), and a live client is the one redisClient refers to: none is
\* left unreferenced without being closed.
C21_SingleConnection ==
    /\ Cardinality(LiveClients) <= 1
    /\ \A c \in LiveClients : held = c

\* what holds of the clients: a check creates none and closes none
ChecksOpenNoConnection ==
    [][last'.op = "check" => (clients' = clients /\ held' = held)]_vars

\* ------------------------------------------------------------------ C22
\* C22: rate limiting is enforced on the admin endpoints of the server that
\* createServer builds. When one client has sent RapidRequests requests in a
\* row to GET /api/admin/users, more than the limit allows, at least one of
\* them was answered with HTTP 429.
C22_AdminRouteLimited ==
    http.sent = RapidRequests => http.limited

\* what holds of the route: no request is answered with 429
AdminRouteNeverLimits ==
    http.status # 429 /\ ~http.limited

\* ------------------------------------------------------------------ C23
\* C23: Closed is terminal. Once closeRateLimiter has completed, the
\* connection is released (redisClient unset, the limiter not initialized) and
\* the next operation, whichever it is, leaves the limiter closed: it does not
\* start a connect, and leaves no store active.
C23_ClosedIsTerminal ==
    [][(last.op = "close" /\ last.outcome = "ok")
       => /\ ~redisClient /\ ~initialized
          /\ ~redisClient' /\ ~initialized' /\ ~connecting']_vars

\* what holds of closeRateLimiter: a close that returned leaves redisClient
\* unset, the in-memory map empty and the limiter as it was before
\* initializeRateLimiter
CloseReleases ==
    (last.op = "close" /\ last.outcome = "ok")
        => (~redisClient /\ ~initialized /\ inMemoryStore = << >>)

\* ------------------------------------------------------------------ C24
\* C24: in the Redis store the currentWeight a check compares against
\* maxRequests is the sum of the weights of the key's admitted events that
\* have not expired: for calls one after the other, all of one weight w > 1,
\* right after a call that the store allowed the weights of the key's events
\* inside the window sum to at most maxRequests, and remaining is what that
\* sum leaves of maxRequests.
C24_WeightSumBounded ==
    (ByStore /\ last.via = "redis" /\ last.allowed /\ last.weight > 1)
        => LET admitted == WeightOf("redis", LiveOf("redis", redisStore[last.key]))
           IN  /\ admitted <= maxRequests
               /\ last.remaining = maxRequests - admitted

\* what holds of the Redis store: it admits a request when the number of the
\* key's events inside the window, each counted as 1 whatever its weight, plus
\* the weight of the request is at most maxRequests
MembersBounded ==
    (ByStore /\ last.via = "redis" /\ last.allowed)
        => zCard(LiveOf("redis", redisStore[last.key])) + last.weight - 1
              <= maxRequests

AnswerAlike(key, weight) ==
    LET m == MemoryCheck(key, MapGet(key), maxRequests, windowMs, weight).result
        r == RedisCheck(key, redisStore[key], redisExpireAt[key],
                        maxRequests, windowMs, weight, "none").result
    IN  /\ m.outcome = "decision" /\ r.outcome = "decision"
        /\ m.allowed = r.allowed
        /\ m.remaining = r.remaining
        /\ m.hasRetryAfter = r.hasRetryAfter
        /\ m.retryAfter = r.retryAfter

\* C26: the two stores are equivalent in effect. After the same sequence of
\* checkRateLimit and resetRateLimit calls, of positive weights, made to both,
\* with a Redis server that never fails, the next call gets the same allowed,
\* remaining and retryAfter from the in-memory store and from the Redis store,
\* whatever its weight.
C26_StoresAgree ==
    \A key \in Keys, weight \in 1..MaxWeight : AnswerAlike(key, weight)

\* what holds of the two stores: they answer alike as long as every call has
\* weight 1
UnitCallsAnswerAlike ==
    \A key \in Keys : AnswerAlike(key, 1)

\* ------------------------------------------------------------------ C27
\* C27: recovery to the Redis store is never automatic. Once
\* initializeRateLimiter has ended with the in-memory store active, no
\* checkRateLimit, resetRateLimit or getRateLimitStatus call and no further
\* initializeRateLimiter call changes that: redisClient stays unset, no
\* connect is started, and every call is served by the in-memory store.
C27_NoAutomaticRecovery ==
    [][(initialized /\ ~connecting /\ ~redisClient)
       => /\ initialized' /\ ~connecting' /\ ~redisClient'
          /\ last'.op \in {"check", "reset", "status"}
                => last'.via = "memory"]_vars

\* REDIS_URL is set and the limiter fell back to the in-memory store: a
\* further call of initializeRateLimiter returned at once and left it there
C27_Witness ==
    /\ redisUrl /\ initialized /\ ~connecting /\ ~redisClient
    /\ last.op = "init" /\ last.outcome = "ok"

\* ------------------------------------------------------------------ C28
\* every event the in-memory store holds for key k has expired
AllExpired(k) ==
    /\ k \in DOMAIN inMemoryStore
    /\ FilterRequests(inMemoryStore[k], now - windowMs) = <<>>

\* C28: in-memory growth is bounded by cleanup. A key of the in-memory map
\* whose events have all expired is eventually removed from the map as time
\* passes, without a resetRateLimit or a closeRateLimiter, unless a further
\* check on the key records a new event first.
C28_ExpiredEntryRemoved ==
    \A k \in Keys :
        AllExpired(k) ~> (k \notin DOMAIN inMemoryStore \/ ~AllExpired(k))

\* what holds of the in-memory map: between startup and shutdown, neither the
\* clock nor a check nor a status read removes a key from it
EntriesStay ==
    [][\A k \in Keys :
          k \in DOMAIN inMemoryStore => k \in DOMAIN inMemoryStore']_vars

\* ------------------------------------------------------------------ C29
\* C29: the retry hint is sufficient for unit requests. When a unit-weight
\* check on a key was denied with resetTime = now + retryAfter * 1000 and no
\* call on the key was allowed since, a unit-weight check on the key made at
\* or after that resetTime, with the same maxRequests and windowMs, returns
\* allowed=true. In both stores.
C29_RetryHintSufficient ==
    [][\A k \in Keys :
          (/\ denial[k].resetTime # -1
           /\ now >= denial[k].resetTime
           /\ last'.op = "check" /\ last'.key = k /\ last'.weight = 1)
          => (last'.outcome \in {"decision", "failopen"} /\ last'.allowed)]_vars

\* a caller that was denied came back at or after the resetTime it was
\* given, and the store admitted it and recorded the request
C29_Witness ==
    \E k \in Keys :
        /\ denial[k].retried
        /\ ByStore /\ last.allowed /\ last.key = k /\ last.weight = 1
        /\ last.resetTime = now + windowMs
        /\ \E e \in EventsOf(last.via, inMemoryStore, redisStore, k) :
              StampOf(last.via, e) = now

\* ------------------------------------------------------------------ C30
\* the members of a sorted set that are inside the window at instant t
LiveAt(t, zset) == {m \in zset : m.score > t - windowMs}

\* C30 as stated: the key's expiry never reclaims a live event. Whenever the
\* clock advances, every member of the key that is inside the window at the
\* new instant is still there. A check whose insert succeeds and whose expire
\* fails refutes it: the key keeps the expiry an earlier check set.
C30_TtlKeepsLiveEvents ==
    [][now' > now
       => \A k \in Keys : LiveAt(now', redisStore[k]) \subseteq redisStore'[k]]_vars

\* what holds of the expiry: a check that the Redis store answered, allowed or denied,
\* has set the key's expiry to ceil(windowMs / 1000) seconds from `now`, which
\* is no earlier than now + windowMs; however far the clock then advances, the
\* expiry removes no member that is inside the window at the new instant.
C30_TtlCoversWindow ==
    [][(ByStore /\ last.via = "redis")
       => /\ redisStore[last.key] # {}
             => /\ redisExpireAt[last.key] >= now + windowMs
                /\ redisExpireAt[last.key] < now + windowMs + MsPerSecond
          /\ now' > now
             => LiveAt(now', redisStore[last.key])
                    \subseteq redisStore'[last.key]]_vars
====
